---- MODULE Spec2Model ----
(***************************************************************************)
(* Model of CATHEDRAL/compact-cathedral.py: a sequential script that walks *)
(* a directory tree, hashes the .md files, groups them by digest, deletes  *)
(* all but one member of every group and writes COMPACTION_SUMMARY.md.     *)
(*                                                                         *)
(* The file system is a fixed universe of directory entries (slots).  A    *)
(* path is the sequence of its characters, so that the sort key of         *)
(* remove_duplicates (number of separators, string length) and the         *)
(* '.md' / '.git' filters of find_duplicates are computed as in the code.  *)
(* File contents are sequences of lines; SHA-256 is modelled as a          *)
(* collision-free tagging of the content.                                  *)
(***************************************************************************)
EXTENDS Integers, Sequences, FiniteSets, TLC

VARIABLES
    fs,               \* the tree: slot -> directory entry
    pc,               \* position of main(): start, select, remove, report, done
    run,              \* number of the current invocation of main()
    duplicates,       \* main's `duplicates` dict, in insertion order
    total_duplicates, \* main's `total_duplicates`
    i,                \* index of the duplicate set being processed
    j,                \* index in paths of the next deletion candidate
    kept_files,       \* remove_duplicates' kept_files
    removed_files,    \* remove_duplicates' removed_files
    summary,          \* text written to the summary file by this run (<<>> if none)
    fs0,              \* history: the tree when this run started
    scanned,          \* history: the .md files os.walk yielded to this run, in order
    found,            \* history: the value find_duplicates returned to this run
    calls             \* history: the os.remove calls of this run, in order

vars == <<fs, pc, run, duplicates, total_duplicates, i, j, kept_files,
          removed_files, summary, fs0, scanned, found, calls>>

---------------------------------------------------------------------------
\* Bounds of the model

NumContents == 2      \* distinct ordinary file contents
MaxRuns == 2          \* successive invocations of main()
MaxRemoved == 130     \* longest removed list handed to the report writer
MaxGroups == 2        \* duplicate sets in the report-writer scenarios

\* Program constant: the cap of the listing in the summary
ListLimit == 100

---------------------------------------------------------------------------
\* Strings as character sequences

Sep == "/"
RootDir == <<"/","m","n","t","/","f","/","C","A","T","H","E","D","R","A","L">>
MdExt == <<".","m","d">>
GitName == <<".","g","i","t">>
DName == <<"d">>
XMd == <<"x",".","m","d">>
YMd == <<"y",".","m","d">>
ZzMd == <<"z","z",".","m","d">>
NTxt == <<"n",".","t","x","t">>
SummaryName == <<"C","O","M","P","A","C","T","I","O","N","_",
                 "S","U","M","M","A","R","Y",".","m","d">>

Min(a, b) == IF a < b THEN a ELSE b

\* str.count(ch)
Count(str, ch) == Cardinality({k \in 1..Len(str) : str[k] = ch})

\* str.endswith(suf)
EndsWith(str, suf) ==
    /\ Len(str) >= Len(suf)
    /\ SubSeq(str, Len(str) - Len(suf) + 1, Len(str)) = suf

\* os.path.join(root, file)
Join(root, file) == root \o <<Sep>> \o file

\* all orders in which a directory listing can return a set of entries
Perms(S) ==
    {f \in [1..Cardinality(S) -> S] :
        \A a, b \in 1..Cardinality(S) : a # b => f[a] # f[b]}

---------------------------------------------------------------------------
\* The universe of directory entries

SlotTable ==
    << [dir |-> <<>>,        name |-> XMd],
       [dir |-> <<>>,        name |-> YMd],
       [dir |-> <<>>,        name |-> SummaryName],
       [dir |-> <<DName>>,   name |-> XMd],
       [dir |-> <<DName>>,   name |-> ZzMd],
       [dir |-> <<DName>>,   name |-> NTxt],
       [dir |-> <<GitName>>, name |-> XMd] >>

Slots == 1..Len(SlotTable)
SlotOf(dir, name) == CHOOSE s \in Slots : SlotTable[s] = [dir |-> dir, name |-> name]
SlotX == SlotOf(<<>>, XMd)
SlotY == SlotOf(<<>>, YMd)
SlotDX == SlotOf(<<DName>>, XMd)
SlotDZz == SlotOf(<<DName>>, ZzMd)
SlotNTxt == SlotOf(<<DName>>, NTxt)
SlotGitX == SlotOf(<<GitName>>, XMd)
SubdirNames == {DName, GitName}

SlotDir(s) == SlotTable[s].dir
SlotName(s) == SlotTable[s].name

RECURSIVE DirPath(_)
DirPath(ds) ==
    IF ds = <<>> THEN RootDir
    ELSE Join(DirPath(SubSeq(ds, 1, Len(ds) - 1)), ds[Len(ds)])

\* the filepath string find_duplicates builds for an entry
PathStr(s) == Join(DirPath(SlotDir(s)), SlotName(s))

\* the fixed report location of main()
SummaryPath == Join(RootDir, SummaryName)
SummarySlot == CHOOSE s \in Slots : PathStr(s) = SummaryPath

---------------------------------------------------------------------------
\* File contents and directory entries

TextLine(kind, val) == [kind |-> kind, val |-> val]
Plain(c) == <<TextLine("text", c)>>

NoEntry == [kind |-> "none"]
RegularFile(c, r) == [kind |-> "file", content |-> c, readable |-> r]
SymLink(t) == [kind |-> "link", target |-> t]

\* open(filepath, 'rb').read(): follows a symbolic link to its target
CanRead(f, s) ==
    \/ f[s].kind = "file" /\ f[s].readable
    \/ /\ f[s].kind = "link"
       /\ f[f[s].target].kind = "file"
       /\ f[f[s].target].readable

ReadFile(f, s) ==
    IF f[s].kind = "file" THEN f[s].content ELSE f[f[s].target].content

None == <<>>
Sha256(c) == <<"sha256", c>>

GetFileHash(f, s) == IF CanRead(f, s) THEN Sha256(ReadFile(f, s)) ELSE None

---------------------------------------------------------------------------
\* find_duplicates

\* entries of one directory that the listing returns as files
FilesIn(f, dir) == {s \in Slots : SlotDir(s) = dir /\ f[s].kind # "none"}

\* (variant: the walk descends into every directory)
DirKeptAll(d) == TRUE

\* dirs[:] = [d for d in dirs if d != '.git']
DirKept(d) == d # GitName
Pruned(dl) == SelectSeq(dl, DirKept)

\* the files of the subdirectories os.walk descends into, in visiting order
RECURSIVE SubWalks(_, _)
SubWalks(f, dirs) ==
    IF dirs = <<>> THEN {<<>>}
    ELSE {a \o b : a \in Perms(FilesIn(f, <<Head(dirs)>>)),
                   b \in SubWalks(f, Tail(dirs))}

\* os.walk(root_dir): top-down, every directory listing in an arbitrary order
WalkOrders(f) ==
    {a \o b : a \in Perms(FilesIn(f, <<>>)),
              b \in UNION {SubWalks(f, Pruned(dl)) : dl \in Perms(SubdirNames)}}

\* if file.endswith('.md')
IsCandidateName(file) == EndsWith(file, MdExt)

\* (variant: the absence marker is not tested)
TruthyAlways(h) == TRUE

\* if file_hash:
Truthy(h) == h # None

\* hash_map[file_hash].append(filepath)
AddPath(map, h, s) ==
    IF \E k \in 1..Len(map) : map[k].hash = h
    THEN [k \in 1..Len(map) |->
            IF map[k].hash = h
            THEN [map[k] EXCEPT !.paths = Append(@, s)]
            ELSE map[k]]
    ELSE Append(map, [hash |-> h, paths |-> <<s>>])

RECURSIVE BuildHashMap(_, _, _)
BuildHashMap(f, files, map) ==
    IF files = <<>> THEN map
    ELSE LET s == Head(files)
             h == GetFileHash(f, s)
         IN BuildHashMap(f, Tail(files),
                IF IsCandidateName(SlotName(s)) /\ Truthy(h)
                THEN AddPath(map, h, s)
                ELSE map)

\* (variant: len(paths) >= 1)
IsDuplicateSetLoose(g) == Len(g.paths) >= 1

\* if len(paths) > 1
IsDuplicateSet(g) == Len(g.paths) > 1

\* the files that pass the test of line 27, in the order of the walk
MdFiles(order) == SelectSeq(order, LAMBDA s : IsCandidateName(SlotName(s)))

FindDuplicates(f, order) == SelectSeq(BuildHashMap(f, order, <<>>), IsDuplicateSet)

---------------------------------------------------------------------------
\* remove_duplicates

\* p.count(os.sep) and len(p) of every path of the universe
Depth == [s \in Slots |-> Count(PathStr(s), Sep)]
Length == [s \in Slots |-> Len(PathStr(s))]

\* (variant: the key with its components swapped)
SortKeyByLength(p) == <<Length[p], Depth[p]>>

\* key=lambda p: (p.count(os.sep), len(p))
SortKey(p) == <<Depth[p], Length[p]>>

\* Python's comparison of two (int, int) tuples
TupleLess(a, b) == a[1] < b[1] \/ (a[1] = b[1] /\ a[2] < b[2])

\* list.sort is stable: an element goes behind every element whose key is
\* not greater than its own
RECURSIVE InsertSorted(_, _)
InsertSorted(sorted, p) ==
    IF sorted = <<>> THEN <<p>>
    ELSE IF TupleLess(SortKey(p), SortKey(Head(sorted)))
         THEN <<p>> \o sorted
         ELSE <<Head(sorted)>> \o InsertSorted(Tail(sorted), p)

RECURSIVE StableSort(_)
StableSort(paths) ==
    IF paths = <<>> THEN <<>>
    ELSE InsertSorted(StableSort(SubSeq(paths, 1, Len(paths) - 1)), paths[Len(paths)])

\* (variant: the path is recorded before os.remove is known to succeed)
OnRemoveErrorRecord(removed, dup) == Append(removed, dup)

\* except Exception as e: print(...)   -- removed_files is left as it was
OnRemoveError(removed, dup) == removed

\* the position of the two nested for loops after the element j of set k
Advance(dups, k, n) ==
    IF k >= 1 /\ k <= Len(dups) /\ n < Len(dups[k].paths)
    THEN [pc |-> "remove", i |-> k, j |-> n + 1]
    ELSE IF k < Len(dups)
         THEN [pc |-> "select", i |-> k + 1, j |-> 0]
         ELSE [pc |-> "report", i |-> 0, j |-> 0]

---------------------------------------------------------------------------
\* main

RECURSIVE TotalDuplicates(_)
TotalDuplicates(dups) ==
    IF dups = <<>> THEN 0
    ELSE (Len(Head(dups).paths) - 1) + TotalDuplicates(Tail(dups))

\* (variant: total_duplicates >= 0)
GateAlways(total) == total >= 0

\* if total_duplicates > 0
Gate(total) == total > 0

\* (variant: the listing is not cut)
ListedAll(removed) == removed

\* for r in removed[:100]
Listed(removed) == SubSeq(removed, 1, Min(Len(removed), ListLimit))

\* if len(removed) > 100:  "...and {len(removed) - 100} more files"
MoreLine(removed) ==
    IF Len(removed) > ListLimit
    THEN <<TextLine("more", Len(removed) - ListLimit)>>
    ELSE <<>>

\* the text main() writes to COMPACTION_SUMMARY.md
SummaryText(ngroups, removed) ==
    << TextLine("title", 0),
       TextLine("unique", ngroups),
       TextLine("removed", Len(removed)),
       TextLine("space", Len(removed)),
       TextLine("heading", 0) >>
    \o [k \in 1..Len(Listed(removed)) |-> TextLine("item", Listed(removed)[k])]
    \o MoreLine(removed)

---------------------------------------------------------------------------
\* Initial trees

Contents == {Plain(c) : c \in 1..NumContents}

\* the text of a report of an earlier run, kept as a copy in the tree
OldSummary == SummaryText(1, <<SlotDX>>)

ReadableFiles == {RegularFile(c, TRUE) : c \in Contents}
UnreadableFiles == {RegularFile(c, FALSE) : c \in Contents}

SlotOptions(s) ==
    IF s = SlotX THEN {NoEntry, SymLink(SlotDX)} \cup ReadableFiles
    ELSE IF s \in {SlotY, SlotDX} THEN {NoEntry} \cup ReadableFiles \cup UnreadableFiles
    ELSE IF s = SlotDZz THEN {NoEntry, RegularFile(OldSummary, TRUE)} \cup ReadableFiles
    ELSE IF s = SummarySlot
         THEN {NoEntry, RegularFile(Plain(1), TRUE), RegularFile(OldSummary, TRUE)}
    ELSE {RegularFile(Plain(1), TRUE)}

\* one entry per slot, in the order of SlotTable
Trees ==
    SlotOptions(1) \X SlotOptions(2) \X SlotOptions(3) \X SlotOptions(4)
        \X SlotOptions(5) \X SlotOptions(6) \X SlotOptions(7)

Init ==
    /\ fs \in Trees
    /\ fs0 = fs
    /\ pc = "start"
    /\ run = 1
    /\ duplicates = <<>>
    /\ scanned = <<>>
    /\ found = <<>>
    /\ total_duplicates = 0
    /\ i = 0
    /\ j = 0
    /\ kept_files = <<>>
    /\ removed_files = <<>>
    /\ summary = <<>>
    /\ calls = <<>>

---------------------------------------------------------------------------
\* Steps of main()

\* lines 61-67: find_duplicates, the count and the gate
Scan ==
    /\ pc = "start"
    /\ \E order \in WalkOrders(fs) :
         LET d == FindDuplicates(fs, order)
             t == TotalDuplicates(d)
             pos == Advance(d, 0, 0)
         IN /\ duplicates' = d
            /\ scanned' = MdFiles(order)
            /\ found' = d
            /\ total_duplicates' = t
            /\ IF Gate(t)
               THEN pc' = pos.pc /\ i' = pos.i /\ j' = pos.j
               ELSE pc' = "done" /\ i' = 0 /\ j' = 0
    /\ UNCHANGED <<fs, run, kept_files, removed_files, summary, fs0, calls>>

\* lines 40-46: sort the set in place and keep its first path
SelectKeep ==
    /\ pc = "select"
    /\ LET sorted == StableSort(duplicates[i].paths)
           d == [duplicates EXCEPT ![i].paths = sorted]
           pos == Advance(d, i, 1)
       IN /\ duplicates' = d
          /\ kept_files' = Append(kept_files, sorted[1])
          /\ pc' = pos.pc /\ i' = pos.i /\ j' = pos.j
    /\ UNCHANGED <<fs, run, total_duplicates, removed_files, summary, fs0, scanned, found, calls>>

\* lines 49-52: os.remove(dup) succeeds
RemoveOk ==
    /\ pc = "remove"
    /\ LET dup == duplicates[i].paths[j]
           pos == Advance(duplicates, i, j)
       IN /\ fs[dup].kind # "none"
          /\ fs' = [fs EXCEPT ![dup] = NoEntry]
          /\ removed_files' = Append(removed_files, dup)
          /\ calls' = Append(calls, [path |-> dup, ok |-> TRUE])
          /\ pc' = pos.pc /\ i' = pos.i /\ j' = pos.j
    /\ UNCHANGED <<run, duplicates, total_duplicates, kept_files, summary, fs0, scanned, found>>

\* lines 49-50, 53-54: os.remove(dup) raises
RemoveFail ==
    /\ pc = "remove"
    /\ LET dup == duplicates[i].paths[j]
           pos == Advance(duplicates, i, j)
       IN /\ removed_files' = OnRemoveError(removed_files, dup)
          /\ calls' = Append(calls, [path |-> dup, ok |-> FALSE])
          /\ pc' = pos.pc /\ i' = pos.i /\ j' = pos.j
    /\ UNCHANGED <<fs, run, duplicates, total_duplicates, kept_files, summary, fs0, scanned, found>>

\* lines 70-84: write the summary over whatever is at the report location
Report ==
    /\ pc = "report"
    /\ LET text == SummaryText(Len(duplicates), removed_files)
       IN /\ fs' = [fs EXCEPT ![SummarySlot] = RegularFile(text, TRUE)]
          /\ summary' = text
    /\ pc' = "done"
    /\ UNCHANGED <<run, duplicates, total_duplicates, i, j, kept_files, removed_files,
                   fs0, scanned, found, calls>>

\* the script is started again on the tree the last run left
Rerun ==
    /\ pc = "done"
    /\ run < MaxRuns
    /\ run' = run + 1
    /\ pc' = "start"
    /\ fs0' = fs
    /\ duplicates' = <<>>
    /\ scanned' = <<>>
    /\ found' = <<>>
    /\ total_duplicates' = 0
    /\ i' = 0
    /\ j' = 0
    /\ kept_files' = <<>>
    /\ removed_files' = <<>>
    /\ summary' = <<>>
    /\ calls' = <<>>
    /\ UNCHANGED fs

---------------------------------------------------------------------------
\* The report writer on long removed lists: main() at line 70, after a
\* remove_duplicates that processed a large duplicate set whose paths lie
\* outside the slot universe (their entries are not tracked in fs).

BulkPath(k) == Len(SlotTable) + k

\* set 1: a kept path and Max(n, 1) candidates, the first n of them removed;
\* sets 2..g: a kept path and one candidate whose removal failed
BulkGroups(n, g) ==
    [m \in 1..g |->
        IF m = 1
        THEN [hash |-> Sha256(Plain(m)),
              paths |-> [k \in 1..(IF n = 0 THEN 2 ELSE n + 1) |-> BulkPath(k - 1)]]
        ELSE [hash |-> Sha256(Plain(m)),
              paths |-> <<BulkPath(MaxRemoved + 2 * m), BulkPath(MaxRemoved + 2 * m + 1)>>]]

BulkCalls(n, g) ==
    [k \in 1..(IF n = 0 THEN 1 ELSE n) |-> [path |-> BulkPath(k), ok |-> k <= n]]
    \o [m \in 1..(g - 1) |->
            [path |-> BulkPath(MaxRemoved + 2 * (m + 1) + 1), ok |-> FALSE]]

InitReport ==
    \E n \in 0..MaxRemoved, g \in 1..MaxGroups :
        /\ fs = [s \in Slots |-> NoEntry]
        /\ fs0 = fs
        /\ pc = "report"
        /\ run = 1
        /\ duplicates = BulkGroups(n, g)
        /\ scanned = <<>>
        /\ found = duplicates
        /\ total_duplicates = TotalDuplicates(duplicates)
        /\ i = 0
        /\ j = 0
        /\ kept_files = [m \in 1..g |-> duplicates[m].paths[1]]
        /\ removed_files = [k \in 1..n |-> BulkPath(k)]
        /\ summary = <<>>
        /\ calls = BulkCalls(n, g)

NextReport == Report

SpecReport == InitReport /\ [][NextReport]_vars

---------------------------------------------------------------------------
\* one run of main()
Next == Scan \/ SelectKeep \/ RemoveOk \/ RemoveFail \/ Report

Spec == Init /\ [][Next]_vars

\* one run of main() in which no os.remove call fails
NextAllRemoved == Scan \/ SelectKeep \/ RemoveOk \/ Report

SpecAllRemoved == Init /\ [][NextAllRemoved]_vars

\* successive runs of main() in which no os.remove call fails
NextRerun == Scan \/ SelectKeep \/ RemoveOk \/ Report \/ Rerun

SpecRerun == Init /\ [][NextRerun]_vars

---------------------------------------------------------------------------
\* Vocabulary of the properties, read off the tree and the history
\* variables rather than off the operators of the scan

Range(seq) == {seq[k] : k \in 1..Len(seq)}

\* position of the first occurrence of x in seq
IndexOf(seq, x) == CHOOSE k \in 1..Len(seq) : seq[k] = x /\ \A m \in 1..(k - 1) : seq[m] # x

UnderGit(s) == GitName \in Range(SlotDir(s))

\* the paths the scan is to consider: name ends in '.md', not below '.git'
CandidateSlots == {s \in Slots : EndsWith(SlotName(s), MdExt) /\ ~UnderGit(s)}

Candidate(f, s) == s \in CandidateSlots /\ f[s].kind # "none"

ReadableCandidates(f) == {s \in CandidateSlots : Candidate(f, s) /\ CanRead(f, s)}
UnreadableCandidates(f) == {s \in CandidateSlots : Candidate(f, s) /\ ~CanRead(f, s)}

\* the readable candidates of f with the content of candidate s
Members(f, s) == {t \in ReadableCandidates(f) : ReadFile(f, t) = ReadFile(f, s)}

\* the candidates of f whose content is c
WithContent(f, c) == {t \in ReadableCandidates(f) : ReadFile(f, t) = c}

\* some entry of f still holds the content c
ContentPresent(f, c) ==
    \E t \in Slots :
        \/ f[t].kind = "file" /\ f[t].content = c
        \/ f[t].kind = "link" /\ f[f[t].target].kind = "file"
                              /\ f[f[t].target].content = c

Attempted == {calls[k].path : k \in 1..Len(calls)}
GroupPaths == UNION {Range(found[k].paths) : k \in 1..Len(found)}
ListedInSummary == {summary[k].val : k \in {m \in 1..Len(summary) : summary[m].kind = "item"}}

\* sum over the digests of the tree of (member count - 1)
ExpectedTotal(f) ==
    Cardinality(ReadableCandidates(f))
        - Cardinality({ReadFile(f, s) : s \in ReadableCandidates(f)})

---------------------------------------------------------------------------
\* C1  Content equality: once a run is over, every content that had more
\* than one readable candidate before the run is the content of exactly one
\* candidate, and that candidate is an original member, its entry unchanged.
\* Stated for runs in which every os.remove succeeds (SpecAllRemoved).
ContentEquality ==
    pc = "done" =>
        \A s \in ReadableCandidates(fs0) :
            Cardinality(Members(fs0, s)) > 1 =>
                LET left == WithContent(fs, ReadFile(fs0, s))
                IN /\ Cardinality(left) = 1
                   /\ \A t \in left : t \in Members(fs0, s) /\ fs[t] = fs0[t]

\* C4  Idempotence: a run that follows another run finds no duplicate set
\* and deletes nothing.  Stated for runs in which every os.remove succeeds
\* (SpecRerun).
Idempotence ==
    run > 1 => found = <<>> /\ calls = <<>> /\ removed_files = <<>>

\* C10  No content is lost: a kept path is never passed to os.remove, kept
\* and removed are disjoint, and once the run is over every content that a
\* readable candidate had before the run is still held by some entry.
NoContentLost ==
    /\ Range(kept_files) \cap Attempted = {}
    /\ Range(kept_files) \cap Range(removed_files) = {}
    /\ pc = "done" =>
          \A s \in ReadableCandidates(fs0) : ContentPresent(fs, ReadFile(fs0, s))

---------------------------------------------------------------------------
\* C2  Isolation of non-duplicates: a readable candidate whose content no
\* other readable candidate of the scanned tree has is in no set that
\* find_duplicates returns, is never passed to os.remove, is never in
\* removed_files and is never listed in the summary.
IsolationOfNonDuplicates ==
    \A s \in ReadableCandidates(fs0) :
        Members(fs0, s) = {s} =>
            /\ s \notin GroupPaths
            /\ s \notin UNION {Range(duplicates[k].paths) : k \in 1..Len(duplicates)}
            /\ s \notin Attempted
            /\ s \notin Range(removed_files)
            /\ s \notin Range(kept_files)
            /\ s \notin ListedInSummary

\* a finished run that removed duplicates and wrote the summary while a
\* candidate with unique content sat in the tree
IsolationWitness ==
    /\ pc = "done"
    /\ removed_files # <<>>
    /\ summary # <<>>
    /\ \E s \in ReadableCandidates(fs0) :
          Members(fs0, s) = {s} /\ s # SummarySlot /\ fs[s] = fs0[s]

RECURSIVE Flatten(_)
Flatten(seqs) == IF seqs = <<>> THEN <<>> ELSE Head(seqs) \o Flatten(Tail(seqs))

\* the paths of the calls of os.remove, and of those that succeeded, in order
CallPaths == [k \in 1..Len(calls) |-> calls[k].path]
SucceededPaths ==
    LET ok == SelectSeq(calls, LAMBDA c : c.ok)
    IN [k \in 1..Len(ok) |-> ok[k].path]

\* C6  Deletion-failure containment: removed_files is at every moment the
\* list of the paths whose os.remove succeeded, in call order; when
\* remove_duplicates has returned, os.remove has been called once for every
\* member but the kept one of every set, set after set in list order,
\* whatever calls failed; kept_files holds one member per set in set order;
\* a path whose call failed is still in the tree and one whose call
\* succeeded is gone (until the summary is written, if it is the report
\* location).
DeletionFailureContainment ==
    /\ removed_files = SucceededPaths
    /\ pc \in {"report", "done"} =>
          /\ CallPaths = Flatten([k \in 1..Len(duplicates) |-> Tail(duplicates[k].paths)])
          /\ Len(kept_files) = Len(found)
          /\ \A k \in 1..Len(found) :
                /\ kept_files[k] \in Range(found[k].paths)
                /\ Range(Tail(duplicates[k].paths)) = Range(found[k].paths) \ {kept_files[k]}
    /\ \A k \in 1..Len(calls) :
          \/ pc = "done" /\ calls[k].path = SummarySlot
          \/ fs[calls[k].path] = (IF calls[k].ok THEN NoEntry ELSE fs0[calls[k].path])

\* remove_duplicates has returned from two sets; the first call of os.remove
\* failed and a later call, for the last set, succeeded
DeletionFailureWitness ==
    /\ pc = "report"
    /\ Len(found) = 2
    /\ Len(calls) >= 3
    /\ ~calls[1].ok
    /\ calls[Len(calls)].ok
    /\ calls[Len(calls)].path \in Range(found[2].paths)

\* C7  Deletion scope: every path passed to os.remove or recorded as
\* removed has a name ending in '.md' and no '.git' directory above it; the
\* entries with another extension or below '.git' are unchanged.
DeletionScope ==
    /\ \A p \in Attempted \cup Range(removed_files) :
          /\ EndsWith(SlotName(p), MdExt)
          /\ ~UnderGit(p)
    /\ \A s \in Slots :
          (~EndsWith(SlotName(s), MdExt) \/ UnderGit(s)) => fs[s] = fs0[s]

\* a finished run deleted a file whose content a '.txt' file and a file
\* below '.git' also have
DeletionScopeWitness ==
    /\ pc = "done"
    /\ \E p \in Range(removed_files) :
          /\ fs0[p].kind = "file"
          /\ fs[p] = NoEntry
          /\ fs[SlotNTxt] = RegularFile(fs0[p].content, TRUE)
          /\ fs[SlotGitX] = RegularFile(fs0[p].content, TRUE)

\* C8  Report gate: total_duplicates is the sum over the digests of the
\* tree as it was before any deletion of (member count - 1); os.remove is
\* called and the summary is written exactly when it is positive, also when
\* every deletion fails; when it is zero the tree is left as it was.
ReportGate ==
    /\ pc # "start" => total_duplicates = ExpectedTotal(fs0)
    /\ pc = "done" =>
          /\ summary # <<>> <=> ExpectedTotal(fs0) > 0
          /\ calls # <<>> <=> ExpectedTotal(fs0) > 0
          /\ kept_files # <<>> <=> ExpectedTotal(fs0) > 0
          /\ ExpectedTotal(fs0) > 0 => fs[SummarySlot] = RegularFile(summary, TRUE)
          /\ ExpectedTotal(fs0) = 0 => fs = fs0
    /\ pc \in {"select", "remove", "report"} => ExpectedTotal(fs0) > 0

\* a finished run in which every os.remove failed: the summary stands at the
\* report location and reports 0 removed
ReportGateWitness ==
    /\ pc = "done"
    /\ calls # <<>>
    /\ \A k \in 1..Len(calls) : ~calls[k].ok
    /\ fs[SummarySlot] = RegularFile(SummaryText(Len(found), <<>>), TRUE)
    /\ fs0[SummarySlot] # fs[SummarySlot]

\* C9  Report truncation: the summary lists the first min(n, 100) removed
\* paths in deletion order, n the length of removed_files; a line
\* "...and N more files" follows them exactly when n > 100, with N = n - 100;
\* the count of removed files is n, the number of successful deletions, and
\* the count of groups is the number of duplicate sets.
ReportTruncation ==
    pc = "done" /\ summary # <<>> =>
        LET n == Len(removed_files)
            items == SelectSeq(summary, LAMBDA l : l.kind = "item")
            more == SelectSeq(summary, LAMBDA l : l.kind = "more")
            shown == IF n < 100 THEN n ELSE 100
        IN /\ Len(items) = shown
           /\ \A k \in 1..Len(items) : items[k].val = removed_files[k]
           /\ \A k \in 1..shown : summary[5 + k].kind = "item"
           /\ Len(more) = (IF n > 100 THEN 1 ELSE 0)
           /\ n > 100 => summary[Len(summary)] = TextLine("more", n - 100)
           /\ Len(summary) = 5 + Len(items) + Len(more)
           /\ summary[2] = TextLine("unique", Len(found))
           /\ summary[3] = TextLine("removed", n)
           /\ n = Cardinality({k \in 1..Len(calls) : calls[k].ok})
           /\ fs[SummarySlot] = RegularFile(summary, TRUE)

\* a summary written for more than 100 removed paths, ending in the line
\* that counts the rest
ReportTruncationWitness ==
    /\ pc = "done"
    /\ Len(removed_files) > 100
    /\ summary[Len(summary)].kind = "more"
    /\ summary[Len(summary)].val = Len(removed_files) - 100
    /\ summary[Len(summary) - 1] = TextLine("item", removed_files[100])

====
